---- MODULE Spec2Model ----
(***************************************************************************)
(* Model of the server-side React component cache, src/lib/index.js:       *)
(* InstantiateReactComponentOptimizer wraps instantiateReactComponent and, *)
(* for registered components, wraps mountComponent with a cache lookup.    *)
(*                                                                         *)
(* JavaScript strings are sequences of one-character strings, so that the  *)
(* replace / escape / template steps are computed character by character.  *)
(* A props tree is a function from paths (sequences of segment names) to   *)
(* nodes [t, s, k, n]: t the JavaScript type, s the characters of a        *)
(* scalar, k the ordered own keys of a plain object, n the length of an    *)
(* array.  A path outside the domain reads as undefined.                   *)
(***************************************************************************)
EXTENDS Integers, Sequences, FiniteSets, TLC

VARIABLES
    enabled,     \* this.enabled
    lruCache,    \* this.lruCache: entries, most recently used first
    stack,       \* the synchronous call stack of mountComponent frames
    ticks,       \* process.nextTick queue of pending eventCallback closures
    observed,    \* the observer's tally of the events it was called with
    draining,    \* the tick queue is being processed
    last,        \* outcome of the most recently returned mountComponent call
    emitted,     \* number of calls that took the hit path / the miss path so far
    calls,       \* number of top-level renderToString calls made so far
    env          \* the environment gate of the constructor: config.env as given,
                 \* process.env.NODE_ENV, the console.info lines printed, and
                 \* whether instantiateReactComponent was wrapped

vars == <<enabled, lruCache, stack, ticks, observed, draining, last, emitted, calls, env>>

----------------------------------------------------------------------------
(* Bounds of the exploration *)

MaxCalls == 2
LruMax == 2

----------------------------------------------------------------------------
(* Strings *)

RECURSIVE Flat(_)
Flat(ss) == IF ss = <<>> THEN <<>> ELSE Head(ss) \o Flat(Tail(ss))

RECURSIVE Str(_)
Str(cs) == IF cs = <<>> THEN "" ELSE Head(cs) \o Str(Tail(cs))

RECURSIVE JoinWith(_, _)
JoinWith(ss, sep) ==
    IF ss = <<>> THEN <<>>
    ELSE IF Len(ss) = 1 THEN Head(ss)
    ELSE Head(ss) \o sep \o JoinWith(Tail(ss), sep)

\* String.prototype.replace(/c/gi, rep) for a one-character pattern c
RECURSIVE ReplaceAll(_, _, _)
ReplaceAll(cs, c, rep) ==
    IF cs = <<>> THEN <<>>
    ELSE (IF Head(cs) = c THEN rep ELSE <<Head(cs)>>) \o ReplaceAll(Tail(cs), c, rep)

IsPrefix(p, s) == Len(p) <= Len(s) /\ SubSeq(s, 1, Len(p)) = p

Digit(i) == <<"0", "1", "2", "3", "4", "5", "6", "7", "8", "9">>[i + 1]

RECURSIVE NumStr(_)
NumStr(i) == IF i < 10 THEN <<Digit(i)>> ELSE NumStr(i \div 10) \o <<Digit(i % 10)>>

----------------------------------------------------------------------------
(* JavaScript values *)

Undefined == [t |-> "undefined", s |-> <<"u","n","d","e","f","i","n","e","d">>, k |-> <<>>, n |-> 0]
StrVal(cs) == [t |-> "string", s |-> cs, k |-> <<>>, n |-> 0]
NumVal(cs) == [t |-> "number", s |-> cs, k |-> <<>>, n |-> 0]
BoolVal(b) == [t |-> "boolean",
               s |-> IF b THEN <<"t","r","u","e">> ELSE <<"f","a","l","s","e">>,
               k |-> <<>>, n |-> 0]
ObjVal(keys) == [t |-> "object", s |-> <<>>, k |-> keys, n |-> 0]
ArrVal(len) == [t |-> "array", s |-> <<>>, k |-> <<>>, n |-> len]

isPlainObject(v) == v.t = "object"
isArray(v) == v.t = "array"
isObject(v) == v.t \in {"object", "array"}

\* own keys of a node, in iteration order
KeysOf(v) ==
    IF isPlainObject(v) THEN v.k
    ELSE IF isArray(v) THEN [i \in 1..v.n |-> NumStr(i - 1)]
    ELSE <<>>

\* lodash get(object, path): the node at the path, undefined when absent
get(tree, path) == IF path \in DOMAIN tree THEN tree[path] ELSE Undefined

\* the subtree below a path, re-rooted
SubTree(tree, path) ==
    LET below == {p \in DOMAIN tree : IsPrefix(path, p)}
    IN  [q \in {SubSeq(p, Len(path) + 1, Len(p)) : p \in below} |-> tree[path \o q]]

HasKey(v, key) == \E i \in 1..Len(KeysOf(v)) : KeysOf(v)[i] = key

\* lodash set(object, path, value) for a scalar value: an ancestor that is
\* missing or not an object is replaced by a new plain object, and the key is
\* added to its parent's own keys
RECURSIVE set(_, _, _)
set(tree, path, val) ==
    IF path = <<>> THEN tree
    ELSE LET parent == SubSeq(path, 1, Len(path) - 1)
             key    == path[Len(path)]
             base   == IF parent \in DOMAIN tree /\ isObject(tree[parent]) THEN tree
                       ELSE set(tree, parent, ObjVal(<<>>))
             pv     == base[parent]
             pv2    == IF isPlainObject(pv) /\ ~HasKey(pv, key)
                       THEN [pv EXCEPT !.k = Append(pv.k, key)]
                       ELSE pv
             kept   == {p \in DOMAIN base : ~IsPrefix(path, p)}
         IN  [p \in kept \cup {path} |->
                 IF p = path THEN val ELSE IF p = parent THEN pv2 ELSE base[p]]

\* the value found at a path, as a tree of its own
ValueAt(tree, path) ==
    IF path \in DOMAIN tree THEN SubTree(tree, path) ELSE (<<>> :> Undefined)

----------------------------------------------------------------------------
(* react-dom/lib/escapeTextContentForBrowser *)

EscapeChar(c) ==
    CASE c = "\"" -> <<"&","q","u","o","t",";">>
      [] c = "&"  -> <<"&","a","m","p",";">>
      [] c = "'"  -> <<"&","#","x","2","7",";">>
      [] c = "<"  -> <<"&","l","t",";">>
      [] c = ">"  -> <<"&","g","t",";">>
      [] OTHER    -> <<c>>

escapeHtml(cs) == Flat([i \in 1..Len(cs) |-> EscapeChar(cs[i])])

\* '' + text for booleans and numbers, escapeHtml('' + text) for the rest
escapeTextContentForBrowser(v) ==
    IF v.t \in {"boolean", "number"} THEN v.s ELSE escapeHtml(v.s)

----------------------------------------------------------------------------
(* Key generators *)

Null == <<"\\null">>

\* the outcome of a key function that throws instead of returning
Thrown == <<"\\throw">>

defaultCacheKeyFunction(props) == <<"_","d","e","f","a","u","l","t","K","e","y">>

\* JSON.stringify of the value rooted at a path
RECURSIVE JSONstringify(_, _)
JSONstringify(tree, path) ==
    LET v    == get(tree, path)
        keys == KeysOf(v)
        quoted(cs) == <<"\"">> \o cs \o <<"\"">>
        member(i) == IF isArray(v) THEN JSONstringify(tree, path \o <<keys[i]>>)
                     ELSE quoted(keys[i]) \o <<":">> \o JSONstringify(tree, path \o <<keys[i]>>)
    IN  IF isPlainObject(v)
        THEN <<"{">> \o JoinWith([i \in 1..Len(keys) |-> member(i)], <<",">>) \o <<"}">>
        ELSE IF isArray(v)
        THEN <<"[">> \o JoinWith([i \in 1..Len(keys) |-> member(i)], <<",">>) \o <<"]">>
        ELSE IF v.t = "string" THEN quoted(v.s)
        ELSE v.s

\* key += isObject(val) ? JSON.stringify(val) : val, over attrs in order
genAttrBasedKeyFunction(attrs, props) ==
    Flat([i \in 1..Len(attrs) |->
            LET val == get(props, attrs[i])
            IN  IF isObject(val) THEN JSONstringify(props, attrs[i]) ELSE val.s])

----------------------------------------------------------------------------
(* Templatizing and restoring attributes *)

\* propKey.replace(/_/gi, "__").replace(/\./gi, "_")
attrKeyOf(propKey) == ReplaceAll(ReplaceAll(propKey, "_", <<"_", "_">>), ".", <<"_">>)

\* the literal "${" + _attrKey + "}"
Placeholder(attrKey) == <<"$", "{">> \o attrKey \o <<"}">>

\* st = [props, table, addl]: origProps.a, lookupPropTable, addlCacheForArr
RECURSIVE templatizeAttr(_, _, _, _)
RECURSIVE templatizeEach(_, _, _, _, _)
templatizeEach(st, propKey, path, val, i) ==
    LET keys == KeysOf(val[<<>>])
    IN  IF i > Len(keys) THEN st
        ELSE templatizeEach(
                templatizeAttr(st, propKey \o <<".">> \o keys[i], path \o <<keys[i]>>,
                               ValueAt(val, <<keys[i]>>)),
                propKey, path, val, i + 1)

templatizeAttr(st, propKey, path, val) ==
    LET propValue == val[<<>>]
    IN  IF isPlainObject(propValue) THEN templatizeEach(st, propKey, path, val, 1)
        ELSE IF isArray(propValue)
        THEN templatizeEach(
                [st EXCEPT !.addl = Append(@, propKey \o <<"_">> \o NumStr(propValue.n))],
                propKey, path, val, 1)
        ELSE LET _attrKey == attrKeyOf(propKey)
             IN  [st EXCEPT
                    !.table = (_attrKey :> escapeTextContentForBrowser(propValue)) @@ @,
                    !.props = set(@, path, StrVal(Placeholder(_attrKey)))]

\* st = [props, table]: the leaf is written back from the lookup table
RECURSIVE restoreAttr(_, _, _, _)
RECURSIVE restoreEach(_, _, _, _, _)
restoreEach(st, propKey, path, val, i) ==
    LET keys == KeysOf(val[<<>>])
    IN  IF i > Len(keys) THEN st
        ELSE restoreEach(
                restoreAttr(st, propKey \o <<".">> \o keys[i], path \o <<keys[i]>>,
                            ValueAt(val, <<keys[i]>>)),
                propKey, path, val, i + 1)

restoreAttr(st, propKey, path, val) ==
    LET propValue == val[<<>>]
    IN  IF isPlainObject(propValue) THEN restoreEach(st, propKey, path, val, 1)
        ELSE IF isArray(propValue) THEN restoreEach(st, propKey, path, val, 1)
        ELSE LET _attrKey == attrKeyOf(propKey)
                 found    == IF _attrKey \in DOMAIN st.table
                             THEN StrVal(st.table[_attrKey]) ELSE Undefined
             IN  [st EXCEPT !.props = set(@, path, found)]

\* propKey of a configured attribute: `a.${attrKey}`
PropKeyOf(attrKey) == <<"a", ".">> \o JoinWith(attrKey, <<".">>)

\* variant: a scalar template attribute is also pushed to addlCacheForArr
RECURSIVE TemplatizeAllLeaky(_, _, _)
TemplatizeAllLeaky(st, templateAttrs, i) ==
    IF i > Len(templateAttrs) THEN st
    ELSE LET v   == get(st.props, templateAttrs[i])
             nxt == templatizeAttr(st, PropKeyOf(templateAttrs[i]), templateAttrs[i],
                                   ValueAt(st.props, templateAttrs[i]))
         IN  TemplatizeAllLeaky(
                [nxt EXCEPT !.addl = IF isObject(v) THEN @ ELSE Append(@, v.s)],
                templateAttrs, i + 1)

\* templateAttrs.forEach(templatizeAttr ...) of the mountComponent wrapper
RECURSIVE TemplatizeAll(_, _, _)
TemplatizeAll(st, templateAttrs, i) ==
    IF i > Len(templateAttrs) THEN st
    ELSE TemplatizeAll(
            templatizeAttr(st, PropKeyOf(templateAttrs[i]), templateAttrs[i],
                           ValueAt(st.props, templateAttrs[i])),
            templateAttrs, i + 1)

RECURSIVE RestoreAll(_, _, _)
RestoreAll(st, templateAttrs, i) ==
    IF i > Len(templateAttrs) THEN st
    ELSE RestoreAll(
            restoreAttr(st, PropKeyOf(templateAttrs[i]), templateAttrs[i],
                        ValueAt(st.props, templateAttrs[i])),
            templateAttrs, i + 1)

----------------------------------------------------------------------------
(* lodash template over markup.  Markup is a sequence of element nodes     *)
(* [tag, id, text]: id is the data-reactid attribute, text the (escaped)   *)
(* text content.  Only the ${name} interpolation delimiter is modelled.    *)

IndexOf(cs, c) ==
    IF \E i \in 1..Len(cs) : cs[i] = c
    THEN CHOOSE i \in 1..Len(cs) : cs[i] = c /\ \A j \in 1..(i - 1) : cs[j] # c
    ELSE 0

\* a name the compiled function reads as one variable of the data object;
\* any other text between the delimiters is evaluated as an expression over
\* variables the data object does not define
IsIdentifier(cs) ==
    \A i \in 1..Len(cs) :
        cs[i] \notin {",", ".", " ", "-", "+", ":", ";", "\"", "'", "<", ">", "&", "[", "]"}

\* [ok, out]: ok is FALSE when a referenced name is not defined in the data
\* (the compiled function throws a ReferenceError)
RECURSIVE Interpolate(_, _)
Interpolate(cs, data) ==
    IF cs = <<>> THEN [ok |-> TRUE, out |-> <<>>]
    ELSE IF Len(cs) >= 2 /\ cs[1] = "$" /\ cs[2] = "{" /\ IndexOf(cs, "}") # 0
    THEN LET close == IndexOf(cs, "}")
             name  == SubSeq(cs, 3, close - 1)
             rest  == Interpolate(SubSeq(cs, close + 1, Len(cs)), data)
         IN  IF IsIdentifier(name) /\ name \in DOMAIN data
             THEN [ok |-> rest.ok, out |-> data[name] \o rest.out]
             ELSE [ok |-> FALSE, out |-> <<>>]
    ELSE LET rest == Interpolate(Tail(cs), data)
         IN  [ok |-> rest.ok, out |-> <<Head(cs)>> \o rest.out]

\* variant: nothing is compiled
templateNone(markup) == [fn |-> FALSE, src |-> <<>>]

\* template(markup): the compiled function is represented by its source
template(markup) == [fn |-> TRUE, src |-> markup]
NoTemplate == [fn |-> FALSE, src |-> <<>>]

\* compiled(templateAttrValues)
RunCompiled(compiled, data) ==
    LET parts == [i \in 1..Len(compiled.src) |-> Interpolate(compiled.src[i].text, data)]
    IN  [ok  |-> \A i \in 1..Len(parts) : parts[i].ok,
         out |-> [i \in 1..Len(parts) |->
                    [compiled.src[i] EXCEPT !.text = parts[i].out]]]

\* restorePropsAndProcessTemplate: [ok, out, props]
restorePropsAndProcessTemplate(compiled, templateAttrs, templateAttrValues, props) ==
    LET restored == RestoreAll([props |-> props, table |-> templateAttrValues],
                               templateAttrs, 1)
        run      == RunCompiled(compiled, templateAttrValues)
    IN  [ok |-> run.ok, out |-> run.out, props |-> restored.props]

\* new RegExp(`data-reactid="${rootId}`, "g") tried at the start of an
\* identifier in the markup.  The identifier is not escaped: its "." stands
\* for any character and its "$" for the end of the input, which no
\* attribute inside the markup reaches; every other character of an
\* identifier stands for itself
RegExpMatches(pattern, id) ==
    /\ Len(pattern) <= Len(id)
    /\ \A i \in 1..Len(pattern) :
          pattern[i] # "$" /\ (pattern[i] = "." \/ pattern[i] = id[i])

\* cacheMarkup.replace(new RegExp(`data-reactid="${cachedObj.rootId}`, "g"),
\*                     `data-reactid="${rootID}`)
ReplaceReactId(markup, cachedRootId, rootID) ==
    [i \in 1..Len(markup) |->
        IF RegExpMatches(cachedRootId, markup[i].id)
        THEN [markup[i] EXCEPT !.id = rootID \o SubSeq(@, Len(cachedRootId) + 1, Len(@))]
        ELSE markup[i]]

----------------------------------------------------------------------------
(* Configuration handed to the constructor, and the components rendered    *)

text  == <<"t","e","x","t">>
flags == <<"f","l","a","g","s">>
bold  == <<"b","o","l","d">>
data  == <<"d","a","t","a">>
list  == <<"l","i","s","t">>

\* config.components as written by the caller: a bare function, or an object
\* with optional cacheKeyGen, cacheAttrs and templateAttrs
configComponents ==
    [HelloWorld |-> [isFunction |-> TRUE, hasKeyGen |-> FALSE,
                     cacheAttrs |-> <<>>, templateAttrs |-> <<>>],
     HelloFlags |-> [isFunction |-> FALSE, hasKeyGen |-> FALSE,
                     cacheAttrs |-> <<<<flags>>>>, templateAttrs |-> <<<<text>>>>],
     HelloData  |-> [isFunction |-> FALSE, hasKeyGen |-> FALSE,
                     cacheAttrs |-> <<>>, templateAttrs |-> <<<<data>>>>],
     HelloBoth  |-> [isFunction |-> FALSE, hasKeyGen |-> FALSE,
                     cacheAttrs |-> <<<<text>>>>, templateAttrs |-> <<<<text>>>>],
     Page       |-> [isFunction |-> FALSE, hasKeyGen |-> FALSE,
                     cacheAttrs |-> <<<<text>>>>, templateAttrs |-> <<>>],
     HelloPair  |-> [isFunction |-> FALSE, hasKeyGen |-> FALSE,
                     cacheAttrs |-> <<<<text>>, <<flags>>>>, templateAttrs |-> <<>>],
     HelloKeyed |-> [isFunction |-> FALSE, hasKeyGen |-> TRUE,
                     cacheAttrs |-> <<<<flags>>>>, templateAttrs |-> <<>>]]

\* Object.keys(config.components)
componentsToCache == DOMAIN configComponents

\* config.eventCallback is set
hasEventCallback == TRUE

\* the caller's key function: the text when it contains "X", otherwise null;
\* props.text.indexOf is a TypeError when props.text is not a string
CustomKeyGen(props) ==
    LET v == get(props, <<text>>)
    IN  IF v.t # "string" THEN Thrown
        ELSE IF \E i \in 1..Len(v.s) : v.s[i] = "X" THEN v.s ELSE Null

\* variant: cacheAttrs are looked at before an explicit key function
KeyGenStrategyAttrsFirst(cacheConfig) ==
    IF Len(cacheConfig.cacheAttrs) > 0 THEN "attrs"
    ELSE IF cacheConfig.isFunction \/ cacheConfig.hasKeyGen THEN "custom"
    ELSE "default"

\* the strategy the constructor leaves in cacheConfig.cacheKeyGen
KeyGenStrategy(cacheConfig) ==
    IF cacheConfig.isFunction \/ cacheConfig.hasKeyGen THEN "custom"
    ELSE IF Len(cacheConfig.cacheAttrs) > 0 THEN "attrs"
    ELSE "default"

\* self.config.components[cmpName].cacheKeyGen(curEl.props): reading
\* cacheKeyGen of a missing entry is a TypeError
cacheKeyGen(cmpName, props) ==
    IF cmpName \notin componentsToCache THEN Thrown
    ELSE LET cacheConfig == configComponents[cmpName]
             strategy    == KeyGenStrategy(cacheConfig)
         IN  CASE strategy = "custom" -> CustomKeyGen(props)
               [] strategy = "attrs"  -> genAttrBasedKeyFunction(cacheConfig.cacheAttrs, props)
               [] OTHER               -> defaultCacheKeyFunction(props)

\* self.config.components[cmpName].templateAttrs || []
templateAttrsOf(cmpName) == configComponents[cmpName].templateAttrs

\* element types: ES6 classes carry a name only ("" stands for no displayName)
Type(name) == [displayName |-> "", name |-> name]

\* a props tree from <<path, node>> items, written in order
RECURSIVE Build(_)
Build(items) ==
    IF items = <<>> THEN (<<>> :> ObjVal(<<>>))
    ELSE LET it == items[Len(items)]
         IN  set(Build(SubSeq(items, 1, Len(items) - 1)), it[1], it[2])

a == <<"a">>
a0b == <<"a","_","0",",","a",".","d","a","t","a",".","b">>
b0a == <<"b","_","0",",","a",".","d","a","t","a",".","a">>
X == <<"X">>
Y == <<"Y">>
Lt == <<"X", "<">>
i0 == <<"0">>
i1 == <<"1">>

PropsTextX   == Build(<< <<<<text>>, StrVal(X)>> >>)
PropsTextY   == Build(<< <<<<text>>, StrVal(Y)>> >>)
PropsTextLt  == Build(<< <<<<text>>, StrVal(Lt)>> >>)
PropsBoldX   == Build(<< <<<<text>>, StrVal(X)>>, <<<<flags>>, ObjVal(<<>>)>>,
                         <<<<flags, bold>>, BoolVal(TRUE)>> >>)
PropsArrX    == Build(<< <<<<data>>, ArrVal(1)>>, <<<<data, i0>>, StrVal(X)>> >>)
PropsArrXY   == Build(<< <<<<data>>, ArrVal(2)>>, <<<<data, i0>>, StrVal(X)>>,
                         <<<<data, i1>>, StrVal(Y)>> >>)
PropsArrBold == Build(<< <<<<data>>, ArrVal(1)>>, <<<<data, i0>>, StrVal(X)>>,
                         <<<<flags>>, ObjVal(<<>>)>>, <<<<flags, bold>>, BoolVal(TRUE)>> >>)
PropsListX   == Build(<< <<<<data>>, ObjVal(<<>>)>>, <<<<data, list>>, ArrVal(1)>>,
                         <<<<data, list, i0>>, StrVal(X)>> >>)
PropsListXY  == Build(<< <<<<data>>, ObjVal(<<>>)>>, <<<<data, list>>, ArrVal(2)>>,
                         <<<<data, list, i0>>, StrVal(X)>>,
                         <<<<data, list, i1>>, StrVal(Y)>> >>)

\* data maps whose keys hold a comma: {"a_0,a.data.b": [], a: ["X"]} and
\* {a: [], "b_0,a.data.a": ["X"]}
PropsMapA    == Build(<< <<<<data>>, ObjVal(<<>>)>>, <<<<data, a0b>>, ArrVal(0)>>,
                         <<<<data, a>>, ArrVal(1)>>, <<<<data, a, i0>>, StrVal(X)>> >>)
PropsMapB    == Build(<< <<<<data>>, ObjVal(<<>>)>>, <<<<data, a>>, ArrVal(0)>>,
                         <<<<data, b0a>>, ArrVal(1)>>, <<<<data, b0a, i0>>, StrVal(X)>> >>)

\* the props each component is rendered with
PropsFor(name) ==
    CASE name = "HelloWorld" -> {PropsTextX, PropsTextY}
      [] name = "HelloFlags" -> {PropsTextX, PropsTextY, PropsTextLt, PropsBoldX}
      [] name = "HelloData"  -> {PropsArrX, PropsArrXY, PropsArrBold,
                                 PropsListX, PropsListXY, PropsMapA, PropsMapB}
      [] name = "HelloBoth"  -> {PropsTextX, PropsTextY}
      [] name = "Page"       -> {PropsTextX, PropsTextY}
      [] OTHER               -> {PropsTextX}

ComponentNames == {"HelloWorld", "HelloFlags", "HelloData", "HelloBoth", "Page", "Plain"}

\* the instance identifier the renderer hands to a top-level mount; nested
\* instances get the identifier of their parent extended by their position
RootIDs == {<<".", "1">>}

----------------------------------------------------------------------------
(* The host renderer: what the components' render functions produce        *)

Truthy(v) == ~(v.t \in {"undefined", "null"}) /\ v.s # <<"f","a","l","s","e">>
             /\ ~(v.t = "string" /\ v.s = <<>>)

\* the string leaves of a value, in order
RECURSIVE Leaves(_, _)
Leaves(tree, path) ==
    LET v    == get(tree, path)
        keys == KeysOf(v)
    IN  IF isObject(v)
        THEN Flat([i \in 1..Len(keys) |-> Leaves(tree, path \o <<keys[i]>>)])
        ELSE <<v.s>>

\* a child of an element, rendered as text: nothing for undefined, null and
\* booleans, the escaped string otherwise
TextChild(v) ==
    IF v.t \in {"undefined", "null", "boolean"} THEN <<>>
    ELSE escapeTextContentForBrowser(v)

\* render(): [tag, text, children] of the element a component returns
RenderOf(name, props) ==
    [tag  |-> IF Truthy(get(props, <<flags>>)) /\ Truthy(get(props, <<flags, bold>>))
              THEN "h1" ELSE "div",
     text |-> IF name = "HelloData"
              THEN escapeHtml(JoinWith(Leaves(props, <<data>>), <<" ">>))
              ELSE TextChild(get(props, <<text>>)),
     children |-> IF name = "Page"
                  THEN << [type  |-> Type("HelloWorld"),
                           props |-> Build(<< <<<<text>>, get(props, <<text>>)>> >>)] >>
                  ELSE <<>>]

----------------------------------------------------------------------------
(* lru-cache: entries most recently used first.  An entry past maxAge is   *)
(* stale: get drops it and answers undefined.  The fields by, out and      *)
(* renders are history kept for the properties: the call that stored the   *)
(* entry, the output that call returned, and the number of host renders    *)
(* stored under the key since the key was last absent.                     *)

LruIndex(cache, key) ==
    IF \E i \in 1..Len(cache) : cache[i].key = key
    THEN CHOOSE i \in 1..Len(cache) : cache[i].key = key
    ELSE 0

Without(cache, i) == SubSeq(cache, 1, i - 1) \o SubSeq(cache, i + 1, Len(cache))

\* variant: the lookup never finds the entry
LruGetNeverFinds(cache, key) == [found |-> FALSE, cache |-> cache]

\* variant: an entry that is found is taken out of the store
LruGetForgets(cache, key) ==
    LET i == LruIndex(cache, key)
    IN  IF i = 0 THEN [found |-> FALSE, cache |-> cache]
        ELSE IF cache[i].stale THEN [found |-> FALSE, cache |-> Without(cache, i)]
        ELSE [found |-> TRUE, entry |-> cache[i], cache |-> Without(cache, i)]

\* self.lruCache.get(cacheKey): [found, entry, cache]
LruGet(cache, key) ==
    LET i == LruIndex(cache, key)
    IN  IF i = 0 THEN [found |-> FALSE, cache |-> cache]
        ELSE IF cache[i].stale THEN [found |-> FALSE, cache |-> Without(cache, i)]
        ELSE [found |-> TRUE, entry |-> cache[i],
              cache |-> <<cache[i]>> \o Without(cache, i)]

\* variant: nothing is dropped when the cache holds more than max
LruSetUnbounded(cache, key, value, by, out) ==
    LET i     == LruIndex(cache, key)
        prior == IF i # 0 /\ ~cache[i].stale THEN cache[i].renders ELSE 0
        rest  == IF i = 0 THEN cache ELSE Without(cache, i)
    IN  <<[key |-> key, value |-> value, stale |-> FALSE,
           by |-> by, out |-> out, renders |-> prior + 1]>> \o rest

\* variant: the entry is stored under another key than the one looked up
LruSetOtherKey(cache, key, value, by, out) ==
    LET entry == [key |-> key \o "~", value |-> value, stale |-> FALSE,
                  by |-> by, out |-> out, renders |-> 1]
        all   == <<entry>> \o cache
    IN  SubSeq(all, 1, IF Len(all) > LruMax THEN LruMax ELSE Len(all))

\* self.lruCache.set(cacheKey, value): the least recently used entries are
\* dropped while the cache holds more than max
LruSet(cache, key, value, by, out) ==
    LET i     == LruIndex(cache, key)
        prior == IF i # 0 /\ ~cache[i].stale THEN cache[i].renders ELSE 0
        rest  == IF i = 0 THEN cache ELSE Without(cache, i)
        entry == [key |-> key, value |-> value, stale |-> FALSE,
                  by |-> by, out |-> out, renders |-> prior + 1]
        all   == <<entry>> \o rest
    IN  SubSeq(all, 1, IF Len(all) > LruMax THEN LruMax ELSE Len(all))

\* variant: the hit branch always returns the stored markup
cacheMarkupVerbatim(cachedObj, templateAttrs, templateAttrValues, props) ==
    [ok |-> TRUE, out |-> cachedObj.markup, props |-> props]

\* cacheMarkup of the hit branch: the template run on the current values
\* when templateAttrs are configured, the stored markup otherwise
cacheMarkupOf(cachedObj, templateAttrs, templateAttrValues, props) ==
    IF Len(templateAttrs) > 0
    THEN restorePropsAndProcessTemplate(cachedObj.compiled, templateAttrs,
                                        templateAttrValues, props)
    ELSE [ok |-> TRUE, out |-> cachedObj.markup, props |-> props]

----------------------------------------------------------------------------
(* Instrumentation *)

\* the observer the caller configured: it counts the cache events by kind
\* (seq is the emission number of the last event it was called with)
Observe(seen, e) ==
    IF e.type = "cache"
    THEN [hit  |-> seen.hit + (IF e.event = "hit" THEN 1 ELSE 0),
          miss |-> seen.miss + (IF e.event = "miss" THEN 1 ELSE 0),
          seq  |-> e.seq]
    ELSE seen

\* variant: the event is dropped
eventCallbackDrops(io, event) == io

\* variant: the observer is called at once instead of on the next tick
eventCallbackSynchronous(io, event) == [io EXCEPT !.observed = Observe(@, event)]

\* variant: the event is put at the front of the queue
eventCallbackUnshifts(io, event) == [io EXCEPT !.ticks = <<event>> \o @]

\* variant: the closure is queued twice
eventCallbackTwice(io, event) == [io EXCEPT !.ticks = Append(Append(@, event), event)]

\* function eventCallback(event): io = [ticks, observed]
eventCallback(io, event) ==
    IF hasEventCallback
    THEN [io EXCEPT !.ticks = Append(@, event)]
    ELSE io

\* the events a call to eventCallback added to the tick queue
Queued(before, after) ==
    [i \in 1..(Len(after) - Len(before)) |->
        [event |-> after[Len(before) + i].event, cmpName |-> after[Len(before) + i].cmpName]]

CacheEvent(kind, cmpName, seq) ==
    [type |-> "cache", event |-> kind, cmpName |-> cmpName, seq |-> seq]

----------------------------------------------------------------------------
(* WrappedInstantiateReactComponent and the wrapped mountComponent         *)

shouldComponentBeCached(curEl) ==
    curEl.type.displayName \in componentsToCache \/ curEl.type.name \in componentsToCache

\* variant: the enabled flag is not consulted
WrapsMountWhenDisabled(isEnabled, curEl) == shouldComponentBeCached(curEl)

\* variant: the registration of the component is not consulted
WrapsMountUnregistered(isEnabled, curEl) == isEnabled

\* whether instantiation wraps the component's mountComponent
WrapsMount(isEnabled, curEl) == isEnabled /\ shouldComponentBeCached(curEl)

\* curEl.type.displayName || curEl.type.name
CmpNameOf(curEl) ==
    IF curEl.type.displayName # "" THEN curEl.type.displayName ELSE curEl.type.name

\* variant: a null key is not recognised
IsNullKeyNever(generatedKey) == FALSE

\* generatedKey === null
IsNullKey(generatedKey) == generatedKey = Null

\* variant: the generated key is left out of the cache key
CacheKeyWithoutGeneratedKey(cmpName, generatedKey, addlCacheForArr) ==
    cmpName \o "::" \o Str(JoinWith(addlCacheForArr, <<",">>))

\* `${cmpName}:${generatedKey}:${addlCacheForArr}`
CacheKeyOf(cmpName, generatedKey, addlCacheForArr) ==
    cmpName \o ":" \o Str(generatedKey) \o ":" \o Str(JoinWith(addlCacheForArr, <<",">>))

\* the frame of a component instance between instantiation and the return
\* of its mountComponent; host, gets, sets, evs and keygens record what the
\* call did, fault the collaborator that threw during it
Instantiate(curEl, rootID, depth) ==
    [type |-> curEl.type, props |-> curEl.props, orig |-> curEl.props,
     rootID |-> rootID, depth |-> depth, en |-> env.wrapped /\ enabled,
     wrapped |-> env.wrapped /\ WrapsMount(enabled, curEl),
     pc |-> "mount", mode |-> "", key |-> "", table |-> <<>>,
     own |-> [tag |-> "", text |-> <<>>], kids |-> <<>>, nodes |-> <<>>,
     host |-> 0, gets |-> 0, sets |-> 0, evs |-> <<>>, keygens |-> 0, fault |-> ""]

\* the emission number of the last event handed to eventCallback
Emitted == emitted.hit + emitted.miss

Top == stack[Len(stack)]
Below == SubSeq(stack, 1, Len(stack) - 1)

\* what a returned call leaves for inspection
Outcome(f, outcome, out) ==
    [outcome |-> outcome, name |-> f.type.name, type |-> f.type, orig |-> f.orig,
     props |-> f.props,
     rootID |-> f.rootID, depth |-> f.depth, en |-> f.en, key |-> f.key,
     out |-> out, host |-> f.host, gets |-> f.gets, sets |-> f.sets, evs |-> f.evs,
     keygens |-> f.keygens, fault |-> f.fault, table |-> f.table]

\* mountComponent returns markup to the frame below (or to renderToString)
Return(f, outcome, out) ==
    /\ last' = Outcome(f, outcome, out)
    /\ stack' = IF Below = <<>> THEN <<>>
                ELSE SubSeq(Below, 1, Len(Below) - 1)
                     \o <<[Below[Len(Below)] EXCEPT !.nodes = @ \o out,
                                                    !.kids = Tail(@)]>>

\* variant: the error is caught inside the wrapper, which returns no markup
ThrowCaught(f) == Return(f, "caught", <<>>)

\* an error thrown inside a mount unwinds the whole synchronous render
Throw(f) ==
    /\ last' = Outcome(f, "throw", <<>>)
    /\ stack' = <<>>

\* the original mountComponent starts: render() runs on the current props
EnterHost(f, mode) ==
    LET r == RenderOf(f.type.name, f.props)
    IN  [f EXCEPT !.pc = "render", !.mode = mode, !.host = @ + 1,
                  !.own = [tag |-> r.tag, text |-> r.text], !.kids = r.children]

\* ReactDomServer.renderToString(element): instantiate the root component
RenderToString(name, props, rootID) ==
    /\ stack = <<>>
    /\ ~draining
    /\ calls < MaxCalls
    /\ calls' = calls + 1
    /\ stack' = <<Instantiate([type |-> Type(name), props |-> props], rootID, 0)>>
    /\ UNCHANGED <<enabled, lruCache, ticks, observed, draining, last, emitted, env>>

\* mountComponent is called on the instance on top of the stack: lines 165-192
\* of the wrapper when it was installed, the original mountComponent otherwise
MountComponent ==
    /\ stack # <<>>
    /\ Top.pc = "mount"
    /\ UNCHANGED <<enabled, draining, calls, env>>
    /\ LET cmpName == CmpNameOf(Top)
           f       == IF Top.wrapped /\ cmpName \in componentsToCache
                      THEN [Top EXCEPT !.keygens = @ + 1] ELSE Top
       IN  IF ~f.wrapped
           THEN /\ stack' = Below \o <<EnterHost(f, IF f.en THEN "unregistered" ELSE "disabled")>>
                /\ UNCHANGED <<lruCache, ticks, observed, draining, last, emitted>>
           ELSE
           LET generatedKey == cacheKeyGen(cmpName, f.props)
           IN  IF generatedKey = Thrown
               THEN /\ Throw(f)
                    /\ UNCHANGED <<lruCache, ticks, observed, emitted>>
               ELSE
               IF IsNullKey(generatedKey)
               THEN /\ stack' = Below \o <<EnterHost(f, "nullkey")>>
                    /\ UNCHANGED <<lruCache, ticks, observed, draining, last, emitted>>
               ELSE
               LET templateAttrs == templateAttrsOf(cmpName)
                   st        == TemplatizeAll([props |-> f.props, table |-> <<>>, addl |-> <<>>],
                                              templateAttrs, 1)
                   cacheKey  == CacheKeyOf(cmpName, generatedKey, st.addl)
                   got       == LruGet(lruCache, cacheKey)
                   g         == [f EXCEPT !.props = st.props, !.table = st.table,
                                          !.key = cacheKey, !.gets = @ + 1]
               IN  /\ lruCache' = got.cache
                   /\ IF got.found
                      THEN LET cachedObj == got.entry.value
                               io  == eventCallback([ticks |-> ticks, observed |-> observed],
                                                    CacheEvent("hit", cmpName, Emitted + 1))
                               res == cacheMarkupOf(cachedObj, templateAttrs, st.table, g.props)
                               h   == [g EXCEPT !.props = res.props,
                                                !.evs = @ \o Queued(ticks, io.ticks)]
                           IN  /\ ticks' = io.ticks
                               /\ observed' = io.observed
                               /\ emitted' = [emitted EXCEPT !.hit = @ + 1]
                               /\ IF res.ok
                                  THEN Return(h, "hit",
                                          ReplaceReactId(res.out, cachedObj.rootId, f.rootID))
                                  ELSE Throw(h)
                      ELSE /\ stack' = Below \o <<EnterHost(g, "miss")>>
                           /\ UNCHANGED <<ticks, observed, draining, last, emitted>>

\* the host renderer instantiates the next child of the element being mounted
InstantiateChild ==
    /\ stack # <<>>
    /\ Top.pc = "render"
    /\ Top.kids # <<>>
    /\ stack' = Append(stack,
                    Instantiate(Head(Top.kids),
                                Top.rootID \o <<".", Digit(Len(Top.nodes))>>,
                                Top.depth + 1))
    /\ UNCHANGED <<enabled, lruCache, ticks, observed, draining, last, emitted, calls, env>>

\* the original mountComponent returns its markup: lines 196-207 of the
\* wrapper when the call was a miss, a plain return otherwise
MountReturns ==
    /\ stack # <<>>
    /\ Top.pc = "render"
    /\ Top.kids = <<>>
    /\ UNCHANGED <<enabled, draining, calls, env>>
    /\ LET f      == Top
           markup == <<[tag |-> f.own.tag, id |-> f.rootID, text |-> f.own.text]>> \o f.nodes
       IN  IF f.mode # "miss"
           THEN /\ Return(f, f.mode, markup)
                /\ UNCHANGED <<lruCache, ticks, observed, emitted>>
           ELSE
           LET cmpName        == CmpNameOf(f)
               templateAttrs  == templateAttrsOf(cmpName)
               compiledMarkup == IF Len(templateAttrs) > 0 THEN template(markup) ELSE NoTemplate
               io  == eventCallback([ticks |-> ticks, observed |-> observed],
                                    CacheEvent("miss", cmpName, Emitted + 1))
               res == IF Len(templateAttrs) > 0
                      THEN restorePropsAndProcessTemplate(
                              compiledMarkup, templateAttrs, f.table, f.props)
                      ELSE [ok |-> TRUE, out |-> markup, props |-> f.props]
               g   == [f EXCEPT !.props = res.props, !.sets = @ + 1,
                                !.evs = @ \o Queued(ticks, io.ticks)]
           IN  /\ ticks' = io.ticks
               /\ observed' = io.observed
               /\ emitted' = [emitted EXCEPT !.miss = @ + 1]
               /\ lruCache' = LruSet(lruCache, f.key,
                                 [markup |-> markup, compiled |-> compiledMarkup,
                                  rootId |-> f.rootID],
                                 [name |-> f.type.name, orig |-> f.orig, rootID |-> f.rootID],
                                 IF res.ok THEN res.out ELSE <<>>)
               /\ IF res.ok THEN Return(g, "miss", res.out) ELSE Throw(g)

\* the closure queued by process.nextTick runs once the current operation
\* has run to completion: self.eventCallback(event)
NextTick ==
    /\ stack = <<>>
    /\ ticks # <<>>
    /\ observed' = Observe(observed, Head(ticks))
    /\ ticks' = Tail(ticks)
    /\ draining' = (Tail(ticks) # <<>>)
    /\ UNCHANGED <<enabled, lruCache, stack, last, emitted, calls, env>>

\* variant: switching the flag empties the store
EnableResets(enableFlag) ==
    /\ stack = <<>>
    /\ ~draining
    /\ enabled # enableFlag
    /\ enabled' = enableFlag
    /\ lruCache' = <<>>
    /\ UNCHANGED <<stack, ticks, observed, draining, last, emitted, calls, env>>

\* enable(enableFlag)
Enable(enableFlag) ==
    /\ stack = <<>>
    /\ ~draining
    /\ enabled # enableFlag
    /\ enabled' = enableFlag
    /\ UNCHANGED <<lruCache, stack, ticks, observed, draining, last, emitted, calls, env>>

\* cacheLength(): this.lruCache.length
cacheLength == Len(lruCache)

\* cacheDump(): this.lruCache.dump(), the entries that are not stale
cacheDump == SelectSeq(lruCache, LAMBDA e : ~e.stale)

\* variant: the reset leaves the most recently used entry in place
CacheResetKeepsNewest ==
    /\ stack = <<>>
    /\ ~draining
    /\ lruCache # <<>>
    /\ lruCache' = <<lruCache[1]>>
    /\ UNCHANGED <<enabled, stack, ticks, observed, draining, last, emitted, calls, env>>

\* cacheReset()
CacheReset ==
    /\ stack = <<>>
    /\ ~draining
    /\ lruCache # <<>>
    /\ lruCache' = <<>>
    /\ UNCHANGED <<enabled, stack, ticks, observed, draining, last, emitted, calls, env>>

\* maxAge passes with no call made: every entry held is now stale
MaxAgeElapses ==
    /\ stack = <<>>
    /\ ~draining
    /\ \E i \in 1..Len(lruCache) : ~lruCache[i].stale
    /\ lruCache' = [i \in 1..Len(lruCache) |-> [lruCache[i] EXCEPT !.stale = TRUE]]
    /\ UNCHANGED <<enabled, stack, ticks, observed, draining, last, emitted, calls, env>>

NoCall ==
    [outcome |-> "none", name |-> "", type |-> Type(""), orig |-> <<>>, props |-> <<>>,
     rootID |-> <<>>,
     depth |-> 0, en |-> FALSE, key |-> "", out |-> <<>>, host |-> 0, gets |-> 0,
     sets |-> 0, evs |-> <<>>, keygens |-> 0, fault |-> "", table |-> <<>>]

\* config.env as the caller wrote it: absent, one name, or a list of names
EnvAbsent == [t |-> "undefined", names |-> <<>>]
EnvString(name) == [t |-> "string", names |-> <<name>>]
EnvList(names) == [t |-> "array", names |-> names]

\* process.env.NODE_ENV when the variable is not set
Unset == "\\undefined"

\* variant: the names of config.env replace "production"
envOfGivenOnly(configEnv) ==
    IF configEnv.names = <<>> THEN <<"production">> ELSE configEnv.names

\* the list the constructor tests NODE_ENV against: config.env (wrapped in a
\* list when it is a string, empty when it is falsy), with "production"
\* pushed when the list does not hold it
envOf(configEnv) ==
    LET given == IF configEnv.t = "undefined" THEN <<>>
                 ELSE IF configEnv.t = "string" /\ configEnv.names[1] = "" THEN <<>>
                 ELSE configEnv.names
    IN  IF \E i \in 1..Len(given) : given[i] = "production" THEN given
        ELSE Append(given, "production")

\* env.indexOf(process.env.NODE_ENV) < 0 is false
EnvMatches(configEnv, nodeEnv) ==
    \E i \in 1..Len(envOf(configEnv)) : envOf(configEnv)[i] = nodeEnv

\* new InstantiateReactComponentOptimizer(config): outside the accepted
\* environments the message is printed and nothing else is set; inside them
\* this.enabled = !(config.disabled === true) and the wrapper is installed
Construct(configEnv, nodeEnv, disabled) ==
    LET active == EnvMatches(configEnv, nodeEnv)
    IN  /\ env = [config |-> configEnv, NODE_ENV |-> nodeEnv,
                  info |-> IF active THEN 0 ELSE 1, wrapped |-> active]
        /\ enabled = (active /\ ~disabled)
        /\ lruCache = <<>>
        /\ stack = <<>>
        /\ ticks = <<>>
        /\ observed = [hit |-> 0, miss |-> 0, seq |-> 0]
        /\ draining = FALSE
        /\ last = NoCall
        /\ emitted = [hit |-> 0, miss |-> 0]
        /\ calls = 0

\* after construction in the production environment
Init == \E disabled \in BOOLEAN : Construct(EnvAbsent, "production", disabled)

Next ==
    \/ \E name \in ComponentNames, rootID \in RootIDs :
          \E props \in PropsFor(name) : RenderToString(name, props, rootID)
    \/ MountComponent
    \/ InstantiateChild
    \/ MountReturns
    \/ NextTick
    \/ \E enableFlag \in BOOLEAN : Enable(enableFlag)
    \/ CacheReset
    \/ MaxAgeElapses

Spec == Init /\ [][Next]_vars

----------------------------------------------------------------------------
(* Vocabulary of the properties *)

Registered(name) == name \in componentsToCache

\* the calls the state remembers: the one that stored each entry, and the
\* last one returned when it went as far as computing a cache key
CallOf(i) == [name |-> lruCache[i].by.name, orig |-> lruCache[i].by.orig,
              rootID |-> lruCache[i].by.rootID, key |-> lruCache[i].key]
LastCall == [name |-> last.name, orig |-> last.orig, rootID |-> last.rootID,
             key |-> last.key]
KnownCalls == {CallOf(i) : i \in 1..Len(lruCache)}
              \cup (IF last.key # "" THEN {LastCall} ELSE {})

\* the entry the last call read, when that call was a hit and the entry is
\* still held
HitEntry == lruCache[LruIndex(lruCache, last.key)]
LastWasHit == last.outcome = "hit" /\ LruIndex(lruCache, last.key) # 0

UnderTemplateAttr(name, p) ==
    \E i \in 1..Len(templateAttrsOf(name)) : IsPrefix(templateAttrsOf(name)[i], p)

\* the attributes of a props tree outside the component's template attributes
NonTemplateAttrs(name, tree) ==
    [p \in {q \in DOMAIN tree : q # <<>> /\ ~UnderTemplateAttr(name, q)} |-> tree[p]]

\* two props trees of equal shape that differ at most in scalar leaves under
\* the component's template attributes
DifferOnlyInTemplateLeaves(name, t1, t2) ==
    /\ DOMAIN t1 = DOMAIN t2
    /\ \A p \in DOMAIN t1 :
          \/ t1[p] = t2[p]
          \/ UnderTemplateAttr(name, p) /\ ~isObject(t1[p]) /\ ~isObject(t2[p])

\* a sequence under a template attribute has different lengths in the two trees
SequenceLengthDiffers(name, t1, t2) ==
    \E p \in DOMAIN t1 \cap DOMAIN t2 :
        /\ UnderTemplateAttr(name, p)
        /\ isArray(t1[p]) /\ isArray(t2[p])
        /\ t1[p].n # t2[p].n

\* the array-shape fingerprint the wrapper collects for a call
ShapeOf(name, tree) ==
    TemplatizeAll([props |-> tree, table |-> <<>>, addl |-> <<>>],
                  templateAttrsOf(name), 1).addl

----------------------------------------------------------------------------
(* C1.  Idempotence: with the cache enabled and a non-null key, while the  *)
(* entry is neither evicted nor reset, the host renderer runs once for a   *)
(* cache key (no miss is stored over a live entry), and a later call with  *)
(* the same key and the same inputs is a hit that renders nothing and      *)
(* returns the output the first call returned.                             *)

C1_Idempotent ==
    /\ \A i \in 1..Len(lruCache) : lruCache[i].renders = 1
    /\ LastWasHit =>
          /\ last.host = 0
          /\ (HitEntry.by.name = last.name /\ HitEntry.by.orig = last.orig
              /\ HitEntry.by.rootID = last.rootID) => last.out = HitEntry.out

C1_Witness ==
    /\ LastWasHit
    /\ last.depth = 0
    /\ HitEntry.by.orig = last.orig /\ HitEntry.by.rootID = last.rootID
    /\ last.out = HitEntry.out /\ last.out # <<>>

(* C2.  A hit on a templated entry renders nothing, and the text it returns *)
(* is the text of the current call's template attribute values (as the      *)
(* renderer writes them), not that of the call that stored the entry.       *)

C2_TemplateHitUsesCurrentValue ==
    (LastWasHit /\ Registered(last.name) /\ templateAttrsOf(last.name) # <<>>) =>
        /\ last.host = 0
        /\ last.out[1].text = RenderOf(last.name, last.orig).text
        /\ (RenderOf(last.name, HitEntry.by.orig).text # RenderOf(last.name, last.orig).text
            => last.out[1].text # HitEntry.out[1].text)

C2_Witness ==
    /\ LastWasHit
    /\ last.name = "HelloFlags"
    /\ DifferOnlyInTemplateLeaves(last.name, HitEntry.by.orig, last.orig)
    /\ HitEntry.by.orig # last.orig
    /\ last.out[1].text = <<"X", "&", "l", "t", ";">>
    /\ HitEntry.out[1].text = <<"X">>

(* C3.  A call whose key generator returns null bypasses the cache: the     *)
(* host renderer runs, the store sees neither get nor set, no event is      *)
(* emitted; this on every such call.                                        *)

C3_NullKeyBypasses ==
    (last.outcome # "none" /\ last.en /\ Registered(last.name)
     /\ cacheKeyGen(last.name, last.orig) = Null) =>
        /\ last.host = 1 /\ last.gets = 0 /\ last.sets = 0 /\ last.evs = <<>>
        /\ last.out # <<>>

C3_Witness ==
    /\ last.name = "HelloWorld" /\ last.en /\ calls = 2 /\ last.depth = 0
    /\ cacheKeyGen(last.name, last.orig) = Null
    /\ last.host = 1 /\ last.gets = 0
    /\ lruCache = <<>> /\ Emitted = 0

(* C4 as worded: a hit never reads an entry stored by a call whose          *)
(* non-template attributes differ from the current call's.                  *)

C4_Original ==
    (LastWasHit /\ HitEntry.by.name = last.name) =>
        NonTemplateAttrs(last.name, HitEntry.by.orig) = NonTemplateAttrs(last.name, last.orig)

(* C4 amended: two calls for the same component with the same array shape   *)
(* of template attributes share an entry only if the key generator returns  *)
(* the same key for both.                                                   *)

C4_SharedEntrySameGeneratedKey ==
    \A c \in KnownCalls :
        (LastWasHit /\ c.key = last.key /\ c.name = last.name
         /\ ShapeOf(c.name, c.orig) = ShapeOf(last.name, last.orig)) =>
            cacheKeyGen(c.name, c.orig) = cacheKeyGen(last.name, last.orig)

C4_Witness ==
    /\ LastWasHit
    /\ last.name = "HelloData" /\ HitEntry.by.name = "HelloData"
    /\ NonTemplateAttrs(last.name, HitEntry.by.orig) # NonTemplateAttrs(last.name, last.orig)
    /\ cacheKeyGen(last.name, HitEntry.by.orig) = cacheKeyGen(last.name, last.orig)

(* C5 as worded: for every configuration, two props trees that differ only  *)
(* in scalar leaves of template attributes have the same cache key.         *)

C5_Original ==
    \A c, d \in KnownCalls :
        (c.name = d.name /\ DifferOnlyInTemplateLeaves(c.name, c.orig, d.orig)) => c.key = d.key

(* C5 amended: two props trees that differ only in scalar leaves of         *)
(* template attributes, and for which the key generator returns the same    *)
(* key, have the same cache key.                                            *)

C5_KeyIgnoresTemplateLeaves ==
    \A c, d \in KnownCalls :
        (c.name = d.name /\ DifferOnlyInTemplateLeaves(c.name, c.orig, d.orig)
         /\ cacheKeyGen(c.name, c.orig) = cacheKeyGen(d.name, d.orig)) => c.key = d.key

C5_Witness ==
    \E c, d \in KnownCalls :
        /\ c.name = d.name /\ c.orig # d.orig
        /\ DifferOnlyInTemplateLeaves(c.name, c.orig, d.orig)
        /\ c.key = d.key

(* C6.  Two calls for the same component in which a sequence under a        *)
(* template attribute has different lengths have different cache keys: the  *)
(* second is never a hit on the entry of the first.                         *)

C6_SequenceLengthInKey ==
    \A c, d \in KnownCalls :
        (c.name = d.name /\ SequenceLengthDiffers(c.name, c.orig, d.orig)) => c.key # d.key

C6_Witness ==
    /\ last.outcome = "miss" /\ last.name = "HelloData"
    /\ \E i \in 1..Len(lruCache) :
          /\ lruCache[i].key # last.key
          /\ lruCache[i].by.name = "HelloData"
          /\ ~lruCache[i].stale
          /\ SequenceLengthDiffers("HelloData", lruCache[i].by.orig, last.orig)

(* C7.  A call made while the controller is disabled runs the host          *)
(* renderer and touches neither store nor observer; a call for a registered *)
(* component with a non-null key made while it is enabled reads the store   *)
(* once and ends as a hit or a miss.                                        *)

C7_DisabledShortCircuits ==
    /\ (last.outcome # "none" /\ ~last.en) =>
          /\ last.host = 1 /\ last.gets = 0 /\ last.sets = 0 /\ last.evs = <<>>
    /\ (last.outcome # "none" /\ last.en /\ Registered(last.name)
        /\ cacheKeyGen(last.name, last.orig) # Null) =>
          /\ last.gets = 1
          /\ last.outcome \in {"hit", "miss", "throw"}

C7_Witness ==
    /\ ~enabled /\ ~last.en /\ last.host = 1 /\ last.gets = 0
    /\ Registered(last.name)
    /\ \E i \in 1..Len(lruCache) :
          /\ ~lruCache[i].stale
          /\ lruCache[i].key = CacheKeyOf(last.name, cacheKeyGen(last.name, last.orig),
                                          ShapeOf(last.name, last.orig))

(* C8.  A call that ends as a hit or a miss hands exactly one event of that *)
(* kind, with the component's name, to the observer's queue; a call that    *)
(* ends as a bypass or disabled hands none.                                 *)

C8_OneEventPerHitOrMiss ==
    /\ last.outcome \in {"hit", "miss"} =>
          last.evs = <<[event |-> last.outcome, cmpName |-> last.name]>>
    /\ last.outcome \in {"disabled", "unregistered", "nullkey"} => last.evs = <<>>

C8_Witness ==
    /\ last.outcome = "hit" /\ last.depth = 1
    /\ last.evs = <<[event |-> "hit", cmpName |-> "HelloWorld"]>>

(* C9.  The observer is not called while a mount is in progress: no step    *)
(* taken with a frame on the call stack changes what the observer has seen. *)

C9_ObserverNotCalledDuringRender == [][stack # <<>> => observed' = observed]_vars

C9_Witness ==
    /\ stack # <<>> /\ ticks # <<>> /\ observed.seq = 0

(* C10.  Events reach the observer in the order they were emitted: the k-th *)
(* event delivered is the k-th emitted, and the queue holds the rest in     *)
(* emission order.                                                          *)

C10_DeliveredInEmissionOrder ==
    /\ observed.seq = observed.hit + observed.miss
    /\ \A i \in 1..Len(ticks) : ticks[i].seq = observed.seq + i

C10_Witness ==
    /\ calls = 1 /\ stack = <<>> /\ ticks = <<>>
    /\ observed.hit + observed.miss = 2
    /\ last.name = "Page"

----------------------------------------------------------------------------
(* Scheduling.  A mount runs synchronously to its return, and Node runs    *)
(* every closure handed to process.nextTick once the operation in progress *)
(* has returned; neither is postponed for ever.  The event scenario        *)
(* renders the components of the observer test, flat and nested.           *)

EventComponents == {"HelloWorld", "Page", "Plain"}

EventNext ==
    \/ \E name \in EventComponents, rootID \in RootIDs :
          \E props \in PropsFor(name) : RenderToString(name, props, rootID)
    \/ MountComponent
    \/ InstantiateChild
    \/ MountReturns
    \/ NextTick
    \/ \E enableFlag \in BOOLEAN : Enable(enableFlag)
    \/ CacheReset
    \/ MaxAgeElapses

Fairness ==
    /\ WF_vars(MountComponent)
    /\ WF_vars(InstantiateChild)
    /\ WF_vars(MountReturns)
    /\ WF_vars(NextTick)

FairSpec == Init /\ [][EventNext]_vars /\ Fairness

\* no mount in progress and no closure pending
Drained == stack = <<>> /\ ticks = <<>>

(* C11.  Every emitted event is eventually delivered, exactly once: a       *)
(* pending event leads to a drained queue, and whenever the queue is        *)
(* drained the observer has counted as many hit events as calls took the    *)
(* hit path and as many miss events as calls took the miss path.            *)

C11_EventuallyDeliveredOnce ==
    /\ [](Drained => (observed.hit = emitted.hit /\ observed.miss = emitted.miss))
    /\ (ticks # <<>>) ~> Drained

C11_Witness ==
    /\ Drained
    /\ observed.hit = 1 /\ observed.miss = 2
    /\ emitted = [hit |-> 1, miss |-> 2]

----------------------------------------------------------------------------
(* The path scenario: a component with templateAttrs ["data"] rendered     *)
(* with maps of maps whose property names begin or end with an underscore, *)
(* {data: {s1: {s2: "X"}, s3: {s4: "Y"}}}.                                 *)

aU == <<"a", "_">>
Ub == <<"_", "b">>
b  == <<"b">>

PathProps ==
    {Build(<< <<<<data>>, ObjVal(<<>>)>>,
              <<<<data, s1>>, ObjVal(<<>>)>>, <<<<data, s1, s2>>, StrVal(X)>>,
              <<<<data, s3>>, ObjVal(<<>>)>>, <<<<data, s3, s4>>, StrVal(Y)>> >>) :
        <<s1, s2, s3, s4>> \in {t \in {a, aU} \X {b, Ub} \X {a, aU} \X {b, Ub} : t[1] # t[3]}}

PathNext ==
    \/ \E props \in PathProps, rootID \in RootIDs : RenderToString("HelloData", props, rootID)
    \/ MountComponent
    \/ MountReturns
    \/ NextTick
    \/ \E enableFlag \in BOOLEAN : Enable(enableFlag)
    \/ CacheReset
    \/ MaxAgeElapses

PathSpec == Init /\ [][PathNext]_vars

\* the scalar leaves below the component's template attributes
TemplateLeafPaths(name, tree) ==
    {p \in DOMAIN tree : UnderTemplateAttr(name, p) /\ ~isObject(tree[p])}

\* the key of a leaf in lookupPropTable
FlatKey(path) == attrKeyOf(PropKeyOf(path))

(* C12.  The escaping is injective: in every call, two distinct leaf paths  *)
(* below the template attributes have different keys in the lookup table    *)
(* (so the table the call filled has one entry per leaf).                   *)

C12_FlatKeyInjective ==
    \A i \in 1..Len(stack) :
        stack[i].mode = "miss" =>
            LET leaves == TemplateLeafPaths(stack[i].type.name, stack[i].orig)
            IN  /\ \A p, q \in leaves : p # q => FlatKey(p) # FlatKey(q)
                /\ Cardinality(DOMAIN stack[i].table) = Cardinality(leaves)

(* C13.  Round trip: when a call on a component with template attributes   *)
(* has returned, as a miss or as a hit, every leaf below a template         *)
(* attribute of the caller's props holds the value it held before the call. *)

C13_RoundTrip ==
    (last.outcome \in {"hit", "miss"} /\ Registered(last.name)
     /\ templateAttrsOf(last.name) # <<>>) =>
        \A p \in TemplateLeafPaths(last.name, last.orig) : get(last.props, p) = last.orig[p]

----------------------------------------------------------------------------
(* The absent-attribute scenario: a component with templateAttrs ["text"]  *)
(* rendered with and without the text attribute.                           *)

PropsNone == Build(<<>>)
PropsBoldOnly == Build(<< <<<<flags>>, ObjVal(<<>>)>>, <<<<flags, bold>>, BoolVal(TRUE)>> >>)

AbsentProps == {PropsTextX, PropsNone, PropsBoldX, PropsBoldOnly}

AbsentNext ==
    \/ \E props \in AbsentProps, rootID \in RootIDs : RenderToString("HelloFlags", props, rootID)
    \/ MountComponent
    \/ MountReturns
    \/ NextTick
    \/ \E enableFlag \in BOOLEAN : Enable(enableFlag)
    \/ CacheReset
    \/ MaxAgeElapses

AbsentSpec == Init /\ [][AbsentNext]_vars

\* every configured template attribute is missing from the props
TemplateAttrsAbsent(name, tree) ==
    /\ templateAttrsOf(name) # <<>>
    /\ \A i \in 1..Len(templateAttrsOf(name)) : templateAttrsOf(name)[i] \notin DOMAIN tree

\* the stored template with the empty string for every template attribute
WithEmptyValues(name, compiled) ==
    RunCompiled(compiled,
                [k \in {FlatKey(templateAttrsOf(name)[i]) : i \in 1..Len(templateAttrsOf(name))}
                    |-> <<>>])

(* C14.  A call that takes the hit path while its template attributes are  *)
(* absent from the props does not throw, and returns the stored template    *)
(* with the empty string in place of every placeholder.                     *)

C14_AbsentSubstitutesEmpty ==
    (last.outcome \in {"hit", "throw"} /\ last.host = 0 /\ last.gets = 1
     /\ Registered(last.name) /\ TemplateAttrsAbsent(last.name, last.orig)) =>
        /\ last.outcome = "hit"
        /\ LastWasHit =>
              last.out = ReplaceReactId(WithEmptyValues(last.name, HitEntry.value.compiled).out,
                                        HitEntry.value.rootId, last.rootID)

----------------------------------------------------------------------------
(* The key-function scenario: the component registered with the caller's   *)
(* key function, rendered with and without the text attribute it reads.    *)

KeyGenNext ==
    \/ \E props \in {PropsTextX, PropsTextY, PropsNone}, rootID \in RootIDs :
          RenderToString("HelloWorld", props, rootID)
    \/ MountComponent
    \/ MountReturns
    \/ NextTick
    \/ \E enableFlag \in BOOLEAN : Enable(enableFlag)
    \/ CacheReset
    \/ MaxAgeElapses

KeyGenSpec == Init /\ [][KeyGenNext]_vars

(* C15.  A call whose key function throws is a bypass: the host renderer    *)
(* runs and its output is returned, the error does not reach the caller,    *)
(* and the store is neither read nor written.                               *)

C15_ThrowingKeyGenBypasses ==
    (last.outcome # "none" /\ last.en /\ Registered(last.name)
     /\ cacheKeyGen(last.name, last.orig) = Thrown) =>
        /\ last.outcome # "throw"
        /\ last.host = 1 /\ last.gets = 0 /\ last.sets = 0
        /\ last.out # <<>>


\* a call the wrapper takes to the store: registered, with a key generated
Cacheable(name, tree) ==
    Registered(name) /\ cacheKeyGen(name, tree) \notin {Null, Thrown}

\* the frame on top of the stack is a miss whose host render has finished
MissAboutToReturn ==
    stack # <<>> /\ Top.pc = "render" /\ Top.kids = <<>> /\ Top.mode = "miss"

(* C16.  Store traffic of a cacheable call: exactly one get; a miss runs    *)
(* the host renderer once and does exactly one set, under the key it        *)
(* looked up; a hit does no set and runs no host render.                    *)

C16_OneGetOneSetPerMiss ==
    /\ []((last.outcome # "none" /\ last.en /\ Cacheable(last.name, last.orig))
            => last.gets = 1)
    /\ [](last.outcome = "hit" => (last.gets = 1 /\ last.sets = 0 /\ last.host = 0))
    /\ [](last.outcome = "miss" => (last.gets = 1 /\ last.sets = 1 /\ last.host = 1))
    /\ [][MissAboutToReturn =>
            /\ Len(lruCache') >= 1
            /\ lruCache'[1].key = Top.key
            /\ lruCache'[1].by = [name |-> Top.type.name, orig |-> Top.orig,
                                  rootID |-> Top.rootID]
            /\ \A i \in 2..Len(lruCache') : lruCache'[i].key # Top.key]_vars

C16_Witness ==
    /\ last.outcome = "miss" /\ last.depth = 0 /\ last.name = "Page"
    /\ last.gets = 1 /\ last.sets = 1 /\ last.host = 1
    /\ Len(lruCache) = 2 /\ lruCache[1].key = last.key

(* C17.  Capacity: the store never holds more than max entries; the entry   *)
(* a miss stored is found by a get that follows it at once; and when a miss *)
(* stores a new key in a full store, the least recently used key is gone: a *)
(* get for it finds nothing (with max = 1, the key of the miss before).     *)

C17_BoundedByMax ==
    /\ [](Len(lruCache) <= LruMax)
    /\ [][MissAboutToReturn =>
            /\ LruGet(lruCache', Top.key).found
            /\ (Len(lruCache) = LruMax /\ LruIndex(lruCache, Top.key) = 0) =>
                  ~LruGet(lruCache', lruCache[LruMax].key).found]_vars

C17_Witness ==
    /\ last.outcome = "miss" /\ last.name = "HelloFlags"
    /\ emitted.miss = 3
    /\ Len(lruCache) = LruMax
    /\ lruCache[1].key = last.key
    /\ lruCache[2].by.name = "Page"
    /\ ~LruGet(lruCache, "HelloWorld:X:").found

----------------------------------------------------------------------------
(* The cache-attribute scenario: a component with cacheAttrs ["text",      *)
(* "flags"] rendered with {text: "X", flags: "Y"}, {text: "XY", flags: ""} *)
(* and {text: "XY"}.                                                       *)

XY == <<"X", "Y">>

PropsPairXandY == Build(<< <<<<text>>, StrVal(X)>>, <<<<flags>>, StrVal(Y)>> >>)
PropsPairXYand == Build(<< <<<<text>>, StrVal(XY)>>, <<<<flags>>, StrVal(<<>>)>> >>)
PropsPairXY    == Build(<< <<<<text>>, StrVal(XY)>> >>)

CacheAttrNext ==
    \/ \E props \in {PropsPairXandY, PropsPairXYand, PropsPairXY}, rootID \in RootIDs :
          RenderToString("HelloPair", props, rootID)
    \/ MountComponent
    \/ MountReturns
    \/ NextTick
    \/ \E enableFlag \in BOOLEAN : Enable(enableFlag)
    \/ CacheReset
    \/ MaxAgeElapses

CacheAttrSpec == Init /\ [][CacheAttrNext]_vars

\* the component's key comes from genAttrBasedKeyFunction
UsesCacheAttrs(name) ==
    Registered(name) /\ KeyGenStrategy(configComponents[name]) = "attrs"

\* the values found at the component's cacheAttrs, in order
CacheAttrValues(name, tree) ==
    [i \in 1..Len(configComponents[name].cacheAttrs) |->
        ValueAt(tree, configComponents[name].cacheAttrs[i])]

(* C18.  For a component keyed by cacheAttrs, two calls whose cacheAttrs    *)
(* values differ get different generated keys and different cache keys, so  *)
(* neither is served from the other's entry.                                *)

C18_CacheAttrsSeparateEntries ==
    \A c, d \in KnownCalls :
        (c.name = d.name /\ UsesCacheAttrs(c.name)
         /\ CacheAttrValues(c.name, c.orig) # CacheAttrValues(d.name, d.orig)) =>
            /\ cacheKeyGen(c.name, c.orig) # cacheKeyGen(d.name, d.orig)
            /\ c.key # d.key

\* the cache keys the store holds
KeysHeld == {lruCache[i].key : i \in 1..Len(lruCache)}

(* C19.  cacheLength() is the number of distinct keys the store holds: a    *)
(* miss on a key not held adds one (up to max), a miss on a key held adds   *)
(* none.  Outside a render only cacheReset() removes keys, and it removes   *)
(* all: afterwards cacheLength() is 0, cacheDump() is empty and a get for   *)
(* any key held before finds nothing.                                       *)

C19_LengthAndReset ==
    /\ [](cacheLength = Cardinality(KeysHeld))
    /\ [][MissAboutToReturn =>
            cacheLength' = IF LruIndex(lruCache, Top.key) # 0 THEN cacheLength
                           ELSE IF cacheLength < LruMax THEN cacheLength + 1
                           ELSE LruMax]_vars
    /\ [][(stack = <<>> /\ stack' = <<>> /\ KeysHeld' # KeysHeld) =>
            /\ cacheLength' = 0
            /\ cacheDump' = <<>>
            /\ \A k \in KeysHeld : ~LruGet(lruCache', k).found]_vars

C19_Witness ==
    /\ stack = <<>> /\ calls = 1
    /\ emitted.miss = 2
    /\ cacheLength = 0 /\ cacheDump = <<>>

----------------------------------------------------------------------------
(* The strategy scenario: one component per way of configuring the key:    *)
(* a bare function, an object with cacheKeyGen and cacheAttrs, an object   *)
(* with cacheAttrs only, an object with neither.                           *)

StrategyProps(name) ==
    CASE name = "HelloWorld" -> {PropsTextX, PropsTextY}
      [] name = "HelloKeyed" -> {PropsTextX, PropsTextY, PropsBoldX}
      [] name = "HelloFlags" -> {PropsTextX, PropsBoldX}
      [] OTHER               -> {PropsArrX, PropsArrBold}

StrategyNext ==
    \/ \E name \in {"HelloWorld", "HelloKeyed", "HelloFlags", "HelloData"}, rootID \in RootIDs :
          \E props \in StrategyProps(name) : RenderToString(name, props, rootID)
    \/ MountComponent
    \/ MountReturns
    \/ NextTick
    \/ \E enableFlag \in BOOLEAN : Enable(enableFlag)
    \/ CacheReset
    \/ MaxAgeElapses

StrategySpec == Init /\ [][StrategyNext]_vars

\* the key the configured priority asks for: the explicit function if the
\* entry is a function or carries cacheKeyGen, else the concatenation over a
\* non-empty cacheAttrs, else the constant
KeyByPriority(name, tree) ==
    LET cfg == configComponents[name]
    IN  IF cfg.isFunction \/ cfg.hasKeyGen THEN CustomKeyGen(tree)
        ELSE IF cfg.cacheAttrs # <<>> THEN genAttrBasedKeyFunction(cfg.cacheAttrs, tree)
        ELSE <<"_","d","e","f","a","u","l","t","K","e","y">>

(* C20.  Strategy priority: the key of every call is built from the         *)
(* explicit key function when one is configured, else from cacheAttrs when  *)
(* non-empty, else from the constant; under the constant, calls for the     *)
(* component with the same array shape share one cache key.                 *)

----------------------------------------------------------------------------
(* C21.  A call made with the cache enabled for a component whose          *)
(* displayName and name are both unregistered is a bypass: the host         *)
(* renderer runs once and its output is returned, no error is raised, no    *)
(* key generator is called, and the store sees neither get nor set.         *)

C21_UnregisteredBypasses ==
    (last.outcome # "none" /\ last.en /\ ~shouldComponentBeCached([type |-> last.type])) =>
        /\ last.outcome = "unregistered"
        /\ last.host = 1 /\ last.out # <<>>
        /\ last.keygens = 0
        /\ last.gets = 0 /\ last.sets = 0 /\ last.evs = <<>>

C21_Witness ==
    /\ last.name = "Plain" /\ last.en /\ last.outcome = "unregistered"
    /\ last.host = 1 /\ last.keygens = 0 /\ last.gets = 0
    /\ calls = 2 /\ cacheLength = 1 /\ Emitted = 1

----------------------------------------------------------------------------
(* The fault scenario: the store is the caller's own (config.cacheImpl)    *)
(* and its get or set may throw; render() of a component may throw too.    *)
(* Nothing in the wrapper catches: the error leaves mountComponent at the  *)
(* line that raised it.                                                    *)

PropsDataA == Build(<< <<<<data>>, ObjVal(<<>>)>>, <<<<data, a>>, StrVal(X)>> >>)
PropsDataB == Build(<< <<<<data>>, ObjVal(<<>>)>>, <<<<data, b>>, StrVal(Y)>> >>)
PropsDataX == Build(<< <<<<data>>, StrVal(X)>> >>)

\* self.lruCache.get(cacheKey) throws: lines 165-181 have run
GetThrows ==
    /\ stack # <<>>
    /\ Top.pc = "mount"
    /\ Top.wrapped
    /\ LET cmpName      == CmpNameOf(Top)
           generatedKey == cacheKeyGen(cmpName, Top.props)
       IN  /\ generatedKey \notin {Thrown, Null}
           /\ LET templateAttrs == templateAttrsOf(cmpName)
                  st == TemplatizeAll([props |-> Top.props, table |-> <<>>, addl |-> <<>>],
                                      templateAttrs, 1)
                  g  == [Top EXCEPT !.props = st.props, !.table = st.table,
                                    !.key = CacheKeyOf(cmpName, generatedKey, st.addl),
                                    !.keygens = @ + 1, !.gets = @ + 1, !.fault = "get"]
              IN  Throw(g)
    /\ UNCHANGED <<enabled, lruCache, ticks, observed, draining, emitted, calls, env>>

\* self.lruCache.set(cacheKey, ...) throws: lines 196-201 have run, the miss
\* event is already handed to eventCallback
SetThrows ==
    /\ stack # <<>>
    /\ Top.pc = "render"
    /\ Top.kids = <<>>
    /\ Top.mode = "miss"
    /\ LET io == eventCallback([ticks |-> ticks, observed |-> observed],
                               CacheEvent("miss", CmpNameOf(Top), Emitted + 1))
           g  == [Top EXCEPT !.sets = @ + 1, !.evs = @ \o Queued(ticks, io.ticks),
                             !.fault = "set"]
       IN  /\ ticks' = io.ticks
           /\ observed' = io.observed
           /\ emitted' = [emitted EXCEPT !.miss = @ + 1]
           /\ Throw(g)
    /\ UNCHANGED <<enabled, lruCache, draining, calls, env>>

\* render() of the component being mounted throws: mount.apply at line 196
\* (or at line 169, or the unwrapped mountComponent) does not return
RenderThrows ==
    /\ stack # <<>>
    /\ Top.pc = "render"
    /\ Throw([Top EXCEPT !.fault = "render"])
    /\ UNCHANGED <<enabled, lruCache, ticks, observed, draining, emitted, calls, env>>

FaultProps(name) ==
    CASE name = "HelloFlags" -> {PropsTextX, PropsTextLt}
      [] name = "HelloData"  -> {PropsDataA, PropsDataB}
      [] OTHER               -> {PropsTextX}

FaultNext ==
    \/ \E name \in {"HelloWorld", "HelloFlags", "HelloData"}, rootID \in RootIDs :
          \E props \in FaultProps(name) : RenderToString(name, props, rootID)
    \/ MountComponent
    \/ GetThrows
    \/ MountReturns
    \/ SetThrows
    \/ RenderThrows
    \/ NextTick
    \/ \E enableFlag \in BOOLEAN : Enable(enableFlag)
    \/ CacheReset
    \/ MaxAgeElapses

FaultSpec == Init /\ [][FaultNext]_vars

(* C22.  An error raised by the store's get or set during a call is not    *)
(* swallowed: the call ends by throwing to the caller and returns no        *)
(* output; after a failed get the host renderer has not run, and after a    *)
(* failed set nothing was stored.                                           *)

C22_StoreErrorPropagates ==
    /\ [](last.fault \in {"get", "set"} => (last.outcome = "throw" /\ last.out = <<>>))
    /\ [](last.fault = "get" => (last.host = 0 /\ last.sets = 0))
    /\ [][(stack # <<>> /\ last'.fault \in {"get", "set"} /\ last' # last) =>
            (stack' = <<>> /\ lruCache' = lruCache)]_vars

C22_Witness ==
    /\ last.fault = "set" /\ last.outcome = "throw" /\ last.out = <<>>
    /\ last.name = "HelloFlags" /\ last.host = 1
    /\ calls = 2 /\ emitted.miss = 2 /\ cacheLength = 1

----------------------------------------------------------------------------
(* The environment scenario: the constructor is run with config.env absent, *)
(* a name, or a list of names, in a process whose NODE_ENV is one of the    *)
(* names, another name, or not set; components are then rendered.           *)

ConfigEnvs ==
    {EnvAbsent, EnvString("notproduction"), EnvString("production"), EnvList(<<>>),
     EnvList(<<"notproduction">>), EnvList(<<"notproduction", "alsonotproduction">>),
     EnvList(<<"production", "notproduction">>)}

NodeEnvs == {"production", "notproduction", "alsonotproduction", "development", Unset}

EnvInit ==
    \E configEnv \in ConfigEnvs, nodeEnv \in NodeEnvs, disabled \in BOOLEAN :
        Construct(configEnv, nodeEnv, disabled)

EnvNext ==
    \/ \E name \in {"HelloWorld", "Plain"}, rootID \in RootIDs :
          \E props \in PropsFor(name) : RenderToString(name, props, rootID)
    \/ MountComponent
    \/ MountReturns
    \/ NextTick
    \/ \E enableFlag \in BOOLEAN : Enable(enableFlag)
    \/ CacheReset
    \/ MaxAgeElapses

EnvSpec == EnvInit /\ [][EnvNext]_vars

\* the names the caller wrote in config.env
NamesGiven(configEnv) == {configEnv.names[i] : i \in 1..Len(configEnv.names)}

(* C23.  Caching is set up if and only if NODE_ENV is "production" or one   *)
(* of the names given in config.env; in every other environment the         *)
(* message is printed once, nothing is intercepted, and every render runs   *)
(* the host renderer with no key generator called, no store and no event.   *)

C23_EnvGate ==
    LET active == env.NODE_ENV = "production" \/ env.NODE_ENV \in NamesGiven(env.config)
    IN  /\ env.wrapped <=> active
        /\ env.info = (IF active THEN 0 ELSE 1)
        /\ ~active =>
              /\ lruCache = <<>> /\ Emitted = 0 /\ ticks = <<>>
              /\ \A i \in 1..Len(stack) : ~stack[i].wrapped
              /\ last.outcome # "none" =>
                    /\ last.host = 1 /\ last.out # <<>>
                    /\ last.keygens = 0 /\ last.gets = 0 /\ last.sets = 0

C23_Witness ==
    /\ env.config = EnvList(<<"notproduction", "alsonotproduction">>)
    /\ env.NODE_ENV = "alsonotproduction"
    /\ env.wrapped /\ env.info = 0
    /\ last.name = "HelloWorld" /\ last.outcome = "hit"

----------------------------------------------------------------------------
\* what the store holds, position aside: key, {markup, compiled, rootId}
Entries(cache) ==
    {[key |-> cache[i].key, value |-> cache[i].value] : i \in 1..Len(cache)}

Holds(cache, k) == LruIndex(cache, k) # 0
ValueOf(cache, k) == cache[LruIndex(cache, k)].value

(* C24.  A hit never changes the store: the step that takes the hit path    *)
(* leaves every entry (markup, compiled template, instance id) as it was    *)
(* and adds or removes none.  The value under a key held before and after   *)
(* a step differs only when a miss for that key stores it; a key appears    *)
(* only by the set of a miss for it, and disappears only when expired,      *)
(* evicted by a set into a full store, or reset.                            *)

C24_HitLeavesStore ==
    /\ [][emitted'.hit # emitted.hit =>
            (Entries(lruCache') = Entries(lruCache) /\ cacheLength' = cacheLength)]_vars
    /\ [][\A k \in KeysHeld \cup KeysHeld' :
            /\ (Holds(lruCache, k) /\ Holds(lruCache', k)
                 /\ ValueOf(lruCache', k) # ValueOf(lruCache, k))
                   => (MissAboutToReturn /\ Top.key = k)
            /\ (~Holds(lruCache, k) /\ Holds(lruCache', k))
                   => (MissAboutToReturn /\ Top.key = k)
            /\ (Holds(lruCache, k) /\ ~Holds(lruCache', k))
                   => \/ lruCache[LruIndex(lruCache, k)].stale
                      \/ MissAboutToReturn /\ cacheLength = LruMax
                      \/ stack = <<>> /\ lruCache' = <<>>]_vars

C24_Witness ==
    /\ LastWasHit /\ last.name = "HelloWorld" /\ last.depth = 0
    /\ cacheLength = 2 /\ lruCache[1].key = last.key
    /\ lruCache[2].by.name = "Page"
    /\ HitEntry.value.rootId # last.rootID
    /\ HitEntry.value.markup = HitEntry.out

----------------------------------------------------------------------------
(* The identifier scenario: components mounted at the root and as keyed    *)
(* children of a host element; the renderer names a child with key k       *)
(* <parent>.$k.                                                            *)

KeyedA == <<".", "1", ".", "$", "a">>
KeyedB == <<".", "1", ".", "$", "b">>

IdRootIDs == RootIDs \cup {KeyedA, KeyedB}

IdNext ==
    \/ \E name \in {"HelloWorld", "HelloFlags"}, rootID \in IdRootIDs :
          \E props \in {PropsTextX, PropsTextY} : RenderToString(name, props, rootID)
    \/ MountComponent
    \/ MountReturns
    \/ NextTick
    \/ \E enableFlag \in BOOLEAN : Enable(enableFlag)
    \/ CacheReset
    \/ MaxAgeElapses

IdSpec == Init /\ [][IdNext]_vars

\* the markup with every identifier that begins with one identifier made to
\* begin with another
WithIdentifier(markup, from, to) ==
    [i \in 1..Len(markup) |->
        IF IsPrefix(from, markup[i].id)
        THEN [markup[i] EXCEPT !.id = to \o SubSeq(@, Len(from) + 1, Len(@))]
        ELSE markup[i]]

(* C25.  On every hit the identifier of the call that stored the entry is   *)
(* rewritten, wherever the stored markup carries it, to the identifier of   *)
(* the current call: every identifier in the output begins with the current *)
(* call's; and a hit without template attributes returns the stored markup  *)
(* with nothing else changed.                                               *)

C25_IdRewrittenOnHit ==
    LastWasHit =>
        LET stored == HitEntry.value
        IN  /\ \A i \in 1..Len(last.out) :
                  /\ IsPrefix(last.rootID, last.out[i].id)
                  /\ last.out[i].id =
                        WithIdentifier(stored.markup, stored.rootId, last.rootID)[i].id
            /\ templateAttrsOf(last.name) = <<>> =>
                  last.out = WithIdentifier(stored.markup, stored.rootId, last.rootID)

----------------------------------------------------------------------------
(* C26.  Every entry in the store holds a compiled template if and only if  *)
(* the component it was stored for has template attributes; an entry        *)
(* without one holds the raw output of its call and nothing compiled; a hit *)
(* of a component with template attributes reads an entry that holds a      *)
(* compiled template, made from the markup stored beside it.                *)

C26_CompiledIffTemplateAttrs ==
    /\ \A i \in 1..Len(lruCache) :
          LET e == lruCache[i]
          IN  /\ e.value.compiled.fn <=> templateAttrsOf(e.by.name) # <<>>
              /\ e.value.compiled.fn => e.value.compiled = template(e.value.markup)
              /\ ~e.value.compiled.fn =>
                    (e.value.compiled = NoTemplate /\ e.value.markup = e.out)
    /\ (LastWasHit /\ templateAttrsOf(last.name) # <<>>) => HitEntry.value.compiled.fn

C26_Witness ==
    /\ LastWasHit /\ last.name = "HelloFlags"
    /\ HitEntry.value.compiled.fn
    /\ HitEntry.value.compiled.src[1].text = Placeholder(FlatKey(<<text>>))
    /\ HitEntry.by.orig # last.orig
    /\ last.out # HitEntry.out

----------------------------------------------------------------------------
(* The shape scenario: a component with templateAttrs ["data"] and the     *)
(* constant key, rendered with {data: {a: "X"}}, {data: {b: "Y"}} and      *)
(* {data: "X"}: no array is met, so all three have the same cache key.     *)

ShapeNext ==
    \/ \E props \in {PropsDataA, PropsDataB, PropsDataX}, rootID \in RootIDs :
          RenderToString("HelloData", props, rootID)
    \/ MountComponent
    \/ MountReturns
    \/ NextTick
    \/ \E enableFlag \in BOOLEAN : Enable(enableFlag)
    \/ CacheReset
    \/ MaxAgeElapses

ShapeSpec == Init /\ [][ShapeNext]_vars

\* the names between "${" and "}" in a text
RECURSIVE NamesIn(_)
NamesIn(cs) ==
    IF cs = <<>> THEN {}
    ELSE IF Len(cs) >= 2 /\ cs[1] = "$" /\ cs[2] = "{" /\ IndexOf(cs, "}") # 0
    THEN {SubSeq(cs, 3, IndexOf(cs, "}") - 1)}
         \cup NamesIn(SubSeq(cs, IndexOf(cs, "}") + 1, Len(cs)))
    ELSE NamesIn(Tail(cs))

\* the placeholders a compiled template reads from the table it is run on
Placeholders(compiled) ==
    UNION {NamesIn(compiled.src[i].text) : i \in 1..Len(compiled.src)}

(* C27.  On every call that takes the hit path for a component with         *)
(* template attributes, each placeholder of the template read has a value   *)
(* in the table built from the current props, and the restoration does not  *)
(* throw; so also when the two calls differ in the keys of an object under  *)
(* a template attribute, or in whether a position is an object or a scalar. *)

C27_PlaceholdersDefined ==
    (last.outcome \in {"hit", "throw"} /\ last.fault = "" /\ last.host = 0 /\ last.gets = 1
     /\ Registered(last.name) /\ templateAttrsOf(last.name) # <<>>
     /\ Holds(lruCache, last.key)) =>
        /\ Placeholders(ValueOf(lruCache, last.key).compiled) \subseteq DOMAIN last.table
        /\ last.outcome = "hit"

----------------------------------------------------------------------------
(* C28.  When a call on a component with template attributes ends by        *)
(* throwing (the host renderer, the store's get or set, or the template     *)
(* restoration raised), no leaf below a template attribute of the caller's  *)
(* props is left holding the placeholder written for it.                    *)

C28_NoPlaceholderAfterError ==
    (last.outcome = "throw" /\ Registered(last.name) /\ templateAttrsOf(last.name) # <<>>) =>
        \A p \in TemplateLeafPaths(last.name, last.orig) :
            get(last.props, p) # StrVal(Placeholder(FlatKey(p)))

----------------------------------------------------------------------------
(* The name scenario: element types that carry a displayName, as           *)
(* React.createClass({displayName: ...}) or a class with a static          *)
(* displayName gives them, beside types that carry a name only.            *)

NamedTypes ==
    {[displayName |-> "HelloWorld", name |-> "Constructor"],
     [displayName |-> "Shown",      name |-> "HelloWorld"],
     [displayName |-> "HelloWorld", name |-> "HelloFlags"],
     [displayName |-> "Shown",      name |-> "Plain"],
     Type("HelloWorld")}

\* ReactDomServer.renderToString of an element of a given type
RenderElement(type, props, rootID) ==
    /\ stack = <<>>
    /\ ~draining
    /\ calls < MaxCalls
    /\ calls' = calls + 1
    /\ stack' = <<Instantiate([type |-> type, props |-> props], rootID, 0)>>
    /\ UNCHANGED <<enabled, lruCache, ticks, observed, draining, last, emitted, env>>

NameNext ==
    \/ \E type \in NamedTypes, props \in {PropsTextX, PropsTextY}, rootID \in RootIDs :
          RenderElement(type, props, rootID)
    \/ MountComponent
    \/ MountReturns
    \/ NextTick
    \/ \E enableFlag \in BOOLEAN : Enable(enableFlag)
    \/ CacheReset
    \/ MaxAgeElapses

NameSpec == Init /\ [][NameNext]_vars

(* C29.  Every element that passes the cacheability check (its displayName  *)
(* or its name is registered) has a configuration entry under the name the  *)
(* wrapper looks up (displayName if set, otherwise name): the key generator *)
(* is found and called.                                                     *)

C29_ConfigFoundForCacheable ==
    /\ \A i \in 1..Len(stack) :
          stack[i].wrapped => CmpNameOf(stack[i]) \in componentsToCache
    /\ (last.outcome # "none" /\ last.en /\ shouldComponentBeCached([type |-> last.type])) =>
          last.keygens = 1

----------------------------------------------------------------------------
\* the cache key the wrapper builds for an element
KeyFor(type, props) ==
    CacheKeyOf(CmpNameOf([type |-> type]),
               cacheKeyGen(CmpNameOf([type |-> type]), props),
               ShapeOf(CmpNameOf([type |-> type]), props))

\* the store holds an entry under the key that has not expired
Live(cache, k) == Holds(cache, k) /\ ~cache[LruIndex(cache, k)].stale

(* C30.  enable(false) and enable(true) leave the store as it is; no step   *)
(* of a call made while disabled changes the store; and a call made while   *)
(* enabled whose key has a live entry, stored before or after the cache was *)
(* disabled, takes the hit path.                                            *)

C30_EnableKeepsStore ==
    /\ [][enabled' # enabled => lruCache' = lruCache]_vars
    /\ [][(stack # <<>> /\ ~Top.en) => lruCache' = lruCache]_vars
    /\ [][(stack # <<>> /\ Top.pc = "mount" /\ Top.wrapped
           /\ Cacheable(Top.type.name, Top.props)
           /\ Live(lruCache, KeyFor(Top.type, Top.props)))
             => (emitted'.hit = emitted.hit + 1 /\ stack' # stack
                 /\ last'.host = 0 /\ last'.key = KeyFor(Top.type, Top.props))]_vars

C30_Witness ==
    /\ enabled /\ stack = <<>> /\ calls = 2
    /\ last.outcome = "disabled" /\ ~last.en /\ last.host = 1
    /\ Cacheable(last.name, last.orig)
    /\ Live(lruCache, KeyFor(last.type, last.orig))
    /\ lruCache[1].by.orig = last.orig /\ cacheLength = 1

====
